---- MODULE Spec2Model ----
(***************************************************************************)
(* Customer-support analytics pipeline (src/utils.py, src/app.py):        *)
(* clean_data, filter_data, calculate_kpis, get_satisfaction_by_group,    *)
(* get_resolution_by_group, get_volume_by_group and the dashboard script  *)
(* that chains them.                                                      *)
(*                                                                         *)
(* A table (pandas DataFrame) is a record [cols, rows]: the set of column *)
(* names and the sequence of rows, each row a function from cols to       *)
(* scalars.  A scalar is a tagged record: "na" (NaN / NaT / pd.NA),       *)
(* "str" (a string), "num" (the rational num/den) or "ts" (a timestamp,   *)
(* num seconds after 2023-06-01 00:00:00).                                *)
(***************************************************************************)
EXTENDS Integers, Sequences, FiniteSets, TLC

VARIABLES df_raw, df, selection, df_filtered, kpis, sat_by_group, vol_by_group, charts,
          raised, pc

vars == <<df_raw, df, selection, df_filtered, kpis, sat_by_group, vol_by_group, charts,
          raised, pc>>

----------------------------------------------------------------------------
(* Scalars *)

NA == [tag |-> "na", str |-> "", num |-> 0, den |-> 1]

Str(s) == [tag |-> "str", str |-> s, num |-> 0, den |-> 1]

Num(n) == [tag |-> "num", str |-> "", num |-> n, den |-> 1]

Ratio(n, d) == [tag |-> "num", str |-> "", num |-> n, den |-> d]

Ts(n) == [tag |-> "ts", str |-> "", num |-> n, den |-> 1]

isna(v) == v.tag = "na"

notna(v) == ~isna(v)

(* Order of two rationals with positive denominators. *)
RatLeq(a, b) == a.num * b.den <= b.num * a.den

----------------------------------------------------------------------------
(* Column names (spec section 6, used literally by the code) *)

RATING == "Customer Satisfaction Rating"

PURCHASE == "Date of Purchase"

FIRST_RESPONSE == "First Response Time"

RESOLUTION == "Time to Resolution"

RESOLUTION_TS == "Time to Resolution Timestamp"

PRIORITY == "Ticket Priority"

CHANNEL == "Ticket Channel"

STATUS == "Ticket Status"

PRODUCT == "Product Purchased"

TYPE == "Ticket Type"

----------------------------------------------------------------------------
(* Tables *)

Table(cols, rows) == [cols |-> cols, rows |-> rows]

NoTable == Table({}, <<>>)

len(t) == Len(t.rows)

(* A function over 1..n as the sequence it is. *)
AsSeq(f) == SubSeq(f, 1, Len(f))

(* A row with the column c set to v. *)
WithColumn(row, c, v) == (c :> v) @@ row

(* df[c] = values: adds the column or overwrites it, row by row. *)
SetColumn(t, c, values) ==
    Table(t.cols \cup {c},
          AsSeq([i \in 1..Len(t.rows) |-> WithColumn(t.rows[i], c, values[i])]))

(* df[mask]: boolean indexing keeps the rows whose mask is true, in order. *)
BoolIndex(t, mask) ==
    LET keep == {i \in 1..Len(t.rows) : mask[i]}
        nth(p) == CHOOSE i \in keep : Cardinality({j \in keep : j < i}) = p - 1
    IN  Table(t.cols, AsSeq([p \in 1..Cardinality(keep) |-> t.rows[nth(p)]]))

(* An expression of the row, evaluated on every row of the table. *)
Rows(t) == 1..Len(t.rows)

(* The result of a call: the value returned, or the exception raised. *)
Returned(v) == [raised |-> "none", value |-> v]

Raise(e) == [raised |-> e, value |-> NoTable]

----------------------------------------------------------------------------
(* clean_data *)

SecondsPerHour == 3600

(* The timestamps and dates the sample data uses, as seconds after        *)
(* 2023-06-01 00:00:00; any other string does not parse.                  *)
TimestampOf ==
    ("2023-06-01" :> 0) @@ ("2023-06-02" :> 86400) @@ ("2023-06-03" :> 172800) @@
    ("2023-06-01 09:00:00" :> 32400) @@ ("2023-06-01 10:00:00" :> 36000) @@
    ("2023-06-01 12:30:00" :> 45000)

(* pd.to_datetime(x, errors="coerce") on one scalar; a number counts the  *)
(* nanoseconds after 1970-01-01, 1685577600 s before 2023-06-01.          *)
to_datetime(v) ==
    CASE v.tag = "ts" -> v
      [] v.tag = "num" -> Ts((v.num \div v.den) \div 1000000000 - 1685577600)
      [] v.tag = "str" /\ v.str \in DOMAIN TimestampOf -> Ts(TimestampOf[v.str])
      [] OTHER -> NA

NumberOf == ("1" :> 1) @@ ("3" :> 3) @@ ("4" :> 4) @@ ("5" :> 5)

(* pd.to_numeric(x, errors="coerce") on one scalar *)
to_numeric(v) ==
    CASE v.tag = "num" -> v
      [] v.tag = "str" /\ v.str \in DOMAIN NumberOf -> Num(NumberOf[v.str])
      [] OTHER -> NA

(* Timestamp - Timestamp, then .dt.total_seconds() / 3600: NaT gives NaN *)
HoursBetween(resolution, first_response) ==
    IF isna(resolution) \/ isna(first_response) THEN NA
    ELSE Ratio(resolution.num - first_response.num, SecondsPerHour)

(* A guard that lets a zero duration through. *)
NullNegativeOnly(v) == IF v.tag = "num" /\ v.num < 0 THEN NA ELSE v

(* df.loc[df["Time to Resolution"] <= 0, "Time to Resolution"] = pd.NA *)
NullNonPositive(v) == IF v.tag = "num" /\ v.num <= 0 THEN NA ELSE v

DeriveResolution(t) ==
    IF RESOLUTION \in t.cols
    THEN LET withTs == SetColumn(t, RESOLUTION_TS,
                           [i \in Rows(t) |-> to_datetime(t.rows[i][RESOLUTION])])
         IN  IF FIRST_RESPONSE \in withTs.cols
             THEN SetColumn(withTs, RESOLUTION,
                      [i \in Rows(t) |->
                          NullNonPositive(HoursBetween(withTs.rows[i][RESOLUTION_TS],
                                                       withTs.rows[i][FIRST_RESPONSE]))])
             ELSE SetColumn(withTs, RESOLUTION, [i \in Rows(t) |-> NA])
    ELSE t

ConvertFirstResponse(t) ==
    IF FIRST_RESPONSE \in t.cols
    THEN SetColumn(t, FIRST_RESPONSE, [i \in Rows(t) |-> to_datetime(t.rows[i][FIRST_RESPONSE])])
    ELSE t

ConvertPurchase(t) ==
    IF PURCHASE \in t.cols
    THEN SetColumn(t, PURCHASE, [i \in Rows(t) |-> to_datetime(t.rows[i][PURCHASE])])
    ELSE t

(* The rating column is read without a guard: a table without it raises. *)
clean_data(t) ==
    IF RATING \notin t.cols THEN Raise("KeyError")
    ELSE LET rated == SetColumn(t, RATING, [i \in Rows(t) |-> to_numeric(t.rows[i][RATING])])
         IN  Returned(DeriveResolution(ConvertFirstResponse(ConvertPurchase(rated))))

----------------------------------------------------------------------------
(* filter_data *)

(* An allow-list argument: None (omitted) or a list, kept as the set of    *)
(* its elements since isin only tests membership.                          *)
Omitted == [given |-> FALSE, values |-> {}]

List(S) == [given |-> TRUE, values |-> S]

(* A test that takes an empty list for a constraint. *)
ListGiven(l) == l.given

(* `if priorities and len(priorities) > 0` *)
Truthy(l) == l.given /\ Cardinality(l.values) > 0

(* A membership test that lets null values through. *)
IsinOrNull(v, l) == isna(v) \/ v \in l.values

(* Series.isin(values): NaN matches only a NaN in the list *)
isin(v, l) == v \in l.values

(* pd.Timestamp(d) of a datetime.date, d days after 2023-06-01: midnight *)
Timestamp(d) == Ts(d * 24 * SecondsPerHour)

(* df["Date of Purchase"] >= pd.Timestamp(start_date): False on NaT *)
FromStart(v, start) == v.tag = "ts" /\ v.num >= start.num

(* An upper bound that excludes the end date. *)
BeforeEnd(v, end) == v.tag = "ts" /\ v.num < end.num

(* df["Date of Purchase"] <= pd.Timestamp(end_date): False on NaT *)
UpToEnd(v, end) == v.tag = "ts" /\ v.num <= end.num

(* if date_range and "Date of Purchase" in df.columns: ... *)
FilterDate(t, date_range) ==
    IF Len(date_range) > 0 /\ PURCHASE \in t.cols
    THEN IF Len(date_range) # 2 THEN Raise("ValueError")
         ELSE Returned(BoolIndex(t, [i \in Rows(t) |->
                  /\ FromStart(t.rows[i][PURCHASE], Timestamp(date_range[1]))
                  /\ UpToEnd(t.rows[i][PURCHASE], Timestamp(date_range[2]))]))
    ELSE Returned(t)

(* if values and len(values) > 0: df = df[df[column].isin(values)] *)
FilterList(out, column, l) ==
    IF out.raised # "none" THEN out
    ELSE IF Truthy(l)
         THEN IF column \notin out.value.cols THEN Raise("KeyError")
              ELSE Returned(BoolIndex(out.value,
                       [i \in Rows(out.value) |-> isin(out.value.rows[i][column], l)]))
         ELSE out

filter_data(t, date_range, priorities, channels, statuses, products) ==
    FilterList(FilterList(FilterList(FilterList(FilterDate(t, date_range),
        PRIORITY, priorities), CHANNEL, channels), STATUS, statuses), PRODUCT, products)

(* app.py: a date_input that does not hold two dates selects no range *)
SelectedDateRange(date_input) == IF Len(date_input) = 2 THEN date_input ELSE <<>>

ApplyFilters(t, sel) ==
    filter_data(t, SelectedDateRange(sel.date_range), sel.priorities, sel.channels,
                sel.statuses, sel.products)

----------------------------------------------------------------------------
(* Aggregations *)

(* df[column] as the sequence of its values; a missing column is a KeyError *)
Column(t, c) == AsSeq([i \in 1..Len(t.rows) |-> t.rows[i][c]])

(* Sum of numbers; the values of one column share their denominator. *)
RECURSIVE Sum(_)
Sum(values) ==
    IF values = <<>> THEN Ratio(0, 1)
    ELSE LET h == Head(values)
             r == Sum(Tail(values))
         IN  IF h.den = r.den THEN Ratio(h.num + r.num, h.den)
             ELSE Ratio(h.num * r.den + r.num * h.den, h.den * r.den)

(* A mean that counts the null values in its denominator. *)
MeanOverAll(values) ==
    LET valid == SelectSeq(values, notna)
    IN  IF valid = <<>> THEN NA
        ELSE Ratio(Sum(valid).num, Sum(valid).den * Len(values))

(* Series.mean(): the mean of the non-null values, NaN when there is none *)
Mean(values) ==
    LET valid == SelectSeq(values, notna)
    IN  IF valid = <<>> THEN NA
        ELSE Ratio(Sum(valid).num, Sum(valid).den * Len(valid))

(* len(df[df["Ticket Status"] == s]) if s in df["Ticket Status"].values else 0 *)
CountStatus(t, s) ==
    IF \E i \in 1..len(t) : t.rows[i][STATUS] = Str(s)
    THEN len(BoolIndex(t, [i \in Rows(t) |-> t.rows[i][STATUS] = Str(s)]))
    ELSE 0

calculate_kpis(t) ==
    IF ~({RATING, RESOLUTION, STATUS} \subseteq t.cols) THEN Raise("KeyError")
    ELSE Returned([total_tickets |-> len(t),
                   avg_satisfaction |-> Mean(Column(t, RATING)),
                   avg_resolution_time |-> Mean(Column(t, RESOLUTION)),
                   open_tickets |-> CountStatus(t, "Open"),
                   closed_tickets |-> CountStatus(t, "Closed")])

(* The strings the sample data groups by, in Python's string order. *)
StringOrder == <<"Chat", "Closed", "Email", "High", "Low", "Open", "Technical issue", "open">>

Rank(v) == IF isna(v) THEN Len(StringOrder) + 1
           ELSE CHOOSE k \in 1..Len(StringOrder) : StringOrder[k] = v.str

(* sort_values: the rows ordered by their keys, ties in their old order. *)
SortValues(seq, keys, ascending) ==
    LET n == Len(seq)
        before(i, j) == IF ascending THEN ~RatLeq(keys[j], keys[i])
                        ELSE ~RatLeq(keys[i], keys[j])
        pos(i) == 1 + Cardinality({j \in 1..n :
                        before(j, i) \/ (~before(i, j) /\ j < i)})
    IN  AsSeq([p \in 1..n |-> seq[CHOOSE i \in 1..n : pos(i) = p]])

(* The distinct values of a sequence, in order of first appearance. *)
Unique(values) ==
    LET first == {i \in 1..Len(values) : \A j \in 1..(i - 1) : values[j] # values[i]}
        nth(p) == CHOOSE i \in first : Cardinality({j \in first : j < i}) = p - 1
    IN  AsSeq([p \in 1..Cardinality(first) |-> values[nth(p)]])

(* groupby(column, dropna=False): the group keys sorted, the null key last *)
GroupKeys(values) ==
    LET keys == Unique(values)
    IN  SortValues(keys, [p \in 1..Len(keys) |-> Num(Rank(keys[p]))], TRUE)

(* The opposite order: worst satisfaction first. *)
SortByMeanAscending(grouped) ==
    SortValues(grouped, [p \in 1..Len(grouped) |-> grouped[p].mean], TRUE)

(* sort_values("mean", ascending=False) *)
SortByMean(grouped) ==
    SortValues(grouped, [p \in 1..Len(grouped) |-> grouped[p].mean], FALSE)

get_satisfaction_by_group(t, group_column) ==
    IF RATING \notin t.cols THEN Raise("KeyError")
    ELSE LET df_valid == BoolIndex(t, [i \in Rows(t) |-> notna(t.rows[i][RATING])])
         IN  IF len(df_valid) = 0 THEN Returned(<<>>)
             ELSE IF group_column \notin t.cols THEN Raise("KeyError")
             ELSE LET keys == GroupKeys(Column(df_valid, group_column))
                      group(k) == BoolIndex(df_valid,
                                      [i \in Rows(df_valid) |-> df_valid.rows[i][group_column] = k])
                      grouped == AsSeq([p \in 1..Len(keys) |->
                                    [group |-> keys[p],
                                     mean  |-> Mean(Column(group(keys[p]), RATING)),
                                     count |-> len(group(keys[p]))]])
                  IN  Returned(SortByMean(grouped))

(* df[df["Time to Resolution"].notna() & (df["Time to Resolution"] > 0)],  *)
(* grouped like the satisfaction, sorted by mean ascending                 *)
get_resolution_by_group(t, group_column) ==
    IF RESOLUTION \notin t.cols THEN Raise("KeyError")
    ELSE LET df_valid == BoolIndex(t, [i \in Rows(t) |->
                             notna(t.rows[i][RESOLUTION]) /\ t.rows[i][RESOLUTION].num > 0])
         IN  IF len(df_valid) = 0 THEN Returned(<<>>)
             ELSE IF group_column \notin t.cols THEN Raise("KeyError")
             ELSE LET keys == GroupKeys(Column(df_valid, group_column))
                      group(k) == BoolIndex(df_valid,
                                      [i \in Rows(df_valid) |-> df_valid.rows[i][group_column] = k])
                      grouped == AsSeq([p \in 1..Len(keys) |->
                                    [group |-> keys[p],
                                     mean  |-> Mean(Column(group(keys[p]), RESOLUTION)),
                                     count |-> len(group(keys[p]))]])
                  IN  Returned(SortValues(grouped,
                                   [p \in 1..Len(grouped) |-> grouped[p].mean], TRUE))

(* value_counts() with its default dropna=True. *)
CountsDropNull(values) == SelectSeq(Unique(values), notna)

(* value_counts(dropna=False) counts every distinct value, null included *)
CountedValues(values) == Unique(values)

get_volume_by_group(t, group_column) ==
    IF group_column \notin t.cols THEN Raise("KeyError")
    ELSE LET values == Column(t, group_column)
             keys == CountedValues(values)
             counts == AsSeq([p \in 1..Len(keys) |->
                          [group |-> keys[p],
                           count |-> Cardinality({i \in 1..Len(values) : values[i] = keys[p]})]])
         IN  Returned(SortValues(counts, [p \in 1..Len(counts) |-> Num(counts[p].count)], FALSE))

----------------------------------------------------------------------------
(* The dashboard script (app.py): every interaction reruns it from the top *)

(* df[column].unique(): options that keep the null value. *)
OptionsWithNull(t, column) == {t.rows[i][column] : i \in 1..len(t)}

(* df[column].dropna().unique(): the options of a multiselect *)
Options(t, column) == {t.rows[i][column] : i \in {j \in 1..len(t) : notna(t.rows[j][column])}}

(* The day of a timestamp, in days after 2023-06-01. *)
DayOf(ts) == ts.num \div (24 * SecondsPerHour)

(* df["Date of Purchase"].min() and .max(), as days *)
MinDay(t) == CHOOSE d \in {DayOf(v) : v \in Options(t, PURCHASE)} :
                 \A v \in Options(t, PURCHASE) : d <= DayOf(v)

MaxDay(t) == CHOOSE d \in {DayOf(v) : v \in Options(t, PURCHASE)} :
                 \A v \in Options(t, PURCHASE) : DayOf(v) <= d

(* The values the date_input can take: nothing when no row has a purchase  *)
(* date, else up to two days between the earliest and the latest date.     *)
DateInputsOf(t) ==
    IF PURCHASE \notin t.cols \/ Options(t, PURCHASE) = {} THEN {<<>>}
    ELSE LET inside == MinDay(t)..MaxDay(t)
         IN  {<<>>} \cup {<<d>> : d \in inside} \cup {<<a, b>> : a, b \in inside}

(* The multiselects in the order the sidebar draws them. *)
WidgetOrder == <<PRIORITY, CHANNEL, STATUS, PRODUCT>>

(* The multiselects the sidebar draws for the cleaned table t: df[column]  *)
(* raises at the first whose column is absent, and none below it is drawn. *)
DrawnColumns(t) ==
    {WidgetOrder[k] : k \in {j \in 1..Len(WidgetOrder) :
                                \A i \in 1..j : WidgetOrder[i] \in t.cols}}

(* default=all options for a multiselect that is drawn; one that is not    *)
(* drawn holds nothing.                                                    *)
DefaultList(t, column) ==
    IF column \in DrawnColumns(t) THEN List(Options(t, column)) ELSE Omitted

(* The selections the widgets hold on the first run. *)
DefaultSelection(t) ==
    [date_range |-> IF PURCHASE \notin t.cols \/ Options(t, PURCHASE) = {} THEN <<>>
                    ELSE <<MinDay(t), MaxDay(t)>>,
     priorities |-> DefaultList(t, PRIORITY),
     channels   |-> DefaultList(t, CHANNEL),
     statuses   |-> DefaultList(t, STATUS),
     products   |-> DefaultList(t, PRODUCT)]

(* The columns the multiselects read: df[column] raises when one is absent *)
WidgetColumns == {PRIORITY, CHANNEL, STATUS, PRODUCT}

(* The sidebar section: it is reached when clean_data returned, and it     *)
(* raises KeyError when a multiselect's column is absent.                  *)
Sidebar(cleaned) ==
    IF cleaned.raised # "none" THEN cleaned
    ELSE IF ~(WidgetColumns \subseteq cleaned.value.cols) THEN Raise("KeyError")
    ELSE cleaned

(* df_scatter: the rows with a positive duration and a rating *)
ScatterRows(t) ==
    IF ~({RESOLUTION, RATING} \subseteq t.cols) THEN Raise("KeyError")
    ELSE Returned(BoolIndex(t, [i \in Rows(t) |->
             /\ notna(t.rows[i][RESOLUTION])
             /\ notna(t.rows[i][RATING])
             /\ t.rows[i][RESOLUTION].num > 0]))

(* The rows of a grouped result, none when its statement was not reached. *)
Bound(out) == IF out.raised = "none" THEN out.value ELSE <<>>

(* Filtering what the previous run had left. *)
PreviousSubset(cleaned, previous) == IF previous.cols = {} THEN cleaned ELSE previous

(* filter_data(df, ...) always starts from the cleaned table *)
FilterSource(cleaned, previous) == cleaned

----------------------------------------------------------------------------
(* Bounds and sample inputs *)

MaxRawRows == 2

Restrict(row, cols) == [c \in cols |-> row[c]] @@ <<>>

RawRatings == {NA, Num(4), Str("abc")}

RawPurchases == {Str("2023-06-02"), Str("not a date")}

RawFirstResponses == {NA, Str("2023-06-01 10:00:00"), Str("pending")}

RawResolutions ==
    {NA, Str("2023-06-01 09:00:00"), Str("2023-06-01 10:00:00"), Str("2023-06-01 12:30:00"),
     Str("unknown")}

SourceColumns == {RATING, PURCHASE, FIRST_RESPONSE, RESOLUTION}

RawRows ==
    {(RATING :> a) @@ (PURCHASE :> b) @@ (FIRST_RESPONSE :> c) @@ (RESOLUTION :> d) :
        a \in RawRatings, b \in RawPurchases, c \in RawFirstResponses, d \in RawResolutions}

(* The raw rows of a table holding the columns cols. *)
RawRowsOver(cols) == {Restrict(r, cols) : r \in RawRows}

NoSelection ==
    [date_range |-> <<>>, priorities |-> Omitted, channels |-> Omitted, statuses |-> Omitted,
     products |-> Omitted]

NoGroups == [column |-> "", rows |-> <<>>]

NoKpis == [total_tickets |-> 0, avg_satisfaction |-> NA, avg_resolution_time |-> NA,
           open_tickets |-> 0, closed_tickets |-> 0]

(* The chart data of the script, before any run. *)
NoCharts ==
    [sat_by_type |-> <<>>, sat_by_priority |-> <<>>, sat_by_channel |-> <<>>,
     df_scatter |-> <<>>, res_by_priority |-> <<>>, vol_by_channel |-> <<>>,
     vol_by_status |-> <<>>]

----------------------------------------------------------------------------
(* clean_data applied to any raw table *)

(* Raw tables holding any subset of the four source columns. *)
InitClean ==
    /\ \E cols \in SUBSET SourceColumns : \E n \in 0..MaxRawRows :
          \E rows \in [1..n -> RawRowsOver(cols)] : df_raw = Table(cols, rows)
    /\ df = NoTable
    /\ selection = NoSelection
    /\ df_filtered = NoTable
    /\ kpis = NoKpis
    /\ sat_by_group = NoGroups
    /\ vol_by_group = NoGroups
    /\ charts = NoCharts
    /\ raised = "none"
    /\ pc = "loaded"

(* df = clean_data(df_raw) *)
Clean ==
    /\ pc = "loaded"
    /\ LET out == clean_data(df_raw)
       IN  /\ df' = out.value
           /\ raised' = out.raised
    /\ pc' = "cleaned"
    /\ UNCHANGED <<df_raw, selection, df_filtered, kpis, sat_by_group, vol_by_group, charts>>

NextClean == Clean

SpecClean == InitClean /\ [][NextClean]_vars

(* The cleaned rows, once clean_data has returned. *)
CleanedRows == IF pc = "cleaned" /\ raised = "none" THEN df.rows ELSE <<>>

(* C1: in every row of clean_data's output the resolution duration is null *)
(* when the first-response timestamp is null, when the raw resolution      *)
(* field did not parse, or when resolution - first response is <= 0;       *)
(* otherwise it is that difference in hours.  So every duration is null or *)
(* strictly positive.  Without a first-response column every duration is   *)
(* null.                                                                   *)
C1_DurationNullOrPositive ==
    \A i \in 1..Len(CleanedRows) :
        LET row == CleanedRows[i]
        IN  RESOLUTION \in DOMAIN row =>
              LET duration == row[RESOLUTION]
                  resolved == row[RESOLUTION_TS]
                  responded == IF FIRST_RESPONSE \in DOMAIN row THEN row[FIRST_RESPONSE] ELSE NA
              IN  /\ IF isna(responded) \/ isna(resolved) \/ resolved.num - responded.num <= 0
                     THEN isna(duration)
                     ELSE /\ duration.tag = "num"
                          /\ duration.num = resolved.num - responded.num
                          /\ duration.den = SecondsPerHour
                  /\ isna(duration) \/ (duration.tag = "num" /\ duration.num > 0 /\ duration.den > 0)
                  /\ resolved = to_datetime(df_raw.rows[i][RESOLUTION])

(* A cleaned table with a 2.5 hour duration and a nulled zero-length one. *)
C1_Witness ==
    /\ Len(CleanedRows) = 2
    /\ RESOLUTION \in df.cols /\ FIRST_RESPONSE \in df.cols
    /\ df.rows[1][RESOLUTION] = Ratio(9000, SecondsPerHour)
    /\ df.rows[2][RESOLUTION_TS] = df.rows[2][FIRST_RESPONSE]
    /\ notna(df.rows[2][FIRST_RESPONSE])
    /\ isna(df.rows[2][RESOLUTION])

(* C6: clean_data never raises, whichever source columns the table lacks. *)
C6_CleanNeverRaises == pc = "cleaned" => raised = "none"

----------------------------------------------------------------------------
(* clean_data applied to its own output *)

(* The columns that hold the parsed source timestamps after cleaning. *)
SourceTimestampColumns == {FIRST_RESPONSE, RESOLUTION_TS}

(* df.drop(columns=...): the table without the columns named, if present. *)
Drop(t, columns) ==
    Table(t.cols \ columns,
          AsSeq([i \in 1..Len(t.rows) |-> Restrict(t.rows[i], t.cols \ columns)]))

(* The tables handed to clean_data a second time: what clean_data returned *)
(* for a raw table, with the source timestamp columns removed.             *)
InitReclean ==
    /\ \E cols \in SUBSET SourceColumns : \E n \in 0..MaxRawRows :
          \E rows \in [1..n -> RawRowsOver(cols)] :
             \E cleaned \in {clean_data(Table(cols, rows))} :
                /\ cleaned.raised = "none"
                /\ df_raw = Drop(cleaned.value, SourceTimestampColumns)
    /\ df = NoTable
    /\ selection = NoSelection
    /\ df_filtered = NoTable
    /\ kpis = NoKpis
    /\ sat_by_group = NoGroups
    /\ vol_by_group = NoGroups
    /\ charts = NoCharts
    /\ raised = "none"
    /\ pc = "loaded"

NextReclean == Clean

SpecReclean == InitReclean /\ [][NextReclean]_vars

(* C11: clean_data applied to a cleaned table whose source first-response  *)
(* and resolution timestamp columns were removed is a no-op: it returns    *)
(* its input, every duration, rating and purchase date left as it was.     *)
C11_RecleanIsNoOp == pc = "cleaned" => raised = "none" /\ df = df_raw

----------------------------------------------------------------------------
(* filter_data applied to any cleaned table and any selection *)

MaxRows == 2

FilterColumns == {PURCHASE, PRIORITY, CHANNEL, STATUS, PRODUCT}

Purchases == {NA, Ts(0), Ts(86400)}

Priorities == {NA, Str("High"), Str("Low")}

TicketRows ==
    {(PURCHASE :> d) @@ (PRIORITY :> p) @@ (CHANNEL :> Str("Email")) @@
     (STATUS :> Str("Open")) @@ (PRODUCT :> Str("GoPro Hero")) :
        d \in Purchases, p \in Priorities}

TicketRowsOver(cols) == {Restrict(r, cols) : r \in TicketRows}

(* What the date_input widget can hold: no date, one date, or two. *)
DateInputs == {<<>>, <<1>>, <<0, 0>>, <<0, 1>>, <<1, 1>>}

Selections ==
    [date_range : DateInputs,
     priorities : {Omitted, List({}), List({Str("High")}), List({Str("High"), Str("Low")})},
     channels   : {List({}), List({Str("Email")})},
     statuses   : {List({}), List({Str("Closed")})},
     products   : {Omitted, List({Str("GoPro Hero")})}]

InitFilter ==
    /\ \E cols \in SUBSET FilterColumns : \E n \in 0..MaxRows :
          \E rows \in [1..n -> TicketRowsOver(cols)] : df = Table(cols, rows)
    /\ selection \in Selections
    /\ df_raw = NoTable
    /\ df_filtered = NoTable
    /\ kpis = NoKpis
    /\ sat_by_group = NoGroups
    /\ vol_by_group = NoGroups
    /\ charts = NoCharts
    /\ raised = "none"
    /\ pc = "cleaned"

(* df_filtered = filter_data(df, ...) *)
Filter ==
    /\ pc = "cleaned"
    /\ LET out == ApplyFilters(df, selection)
       IN  /\ df_filtered' = out.value
           /\ raised' = out.raised
    /\ pc' = "filtered"
    /\ UNCHANGED <<df_raw, df, selection, kpis, sat_by_group, vol_by_group, charts>>

NextFilter == Filter

SpecFilter == InitFilter /\ [][NextFilter]_vars

Filtered == pc = "filtered"

Unconstrained(l) == ~l.given \/ l.values = {}

NoAllowList ==
    /\ Unconstrained(selection.priorities) /\ Unconstrained(selection.channels)
    /\ Unconstrained(selection.statuses) /\ Unconstrained(selection.products)

(* The date range the user selected, if both bounds are there. *)
RangeActive == Len(selection.date_range) = 2 /\ PURCHASE \in df.cols

InRange(row) ==
    /\ row[PURCHASE].tag = "ts"
    /\ selection.date_range[1] * 86400 <= row[PURCHASE].num
    /\ row[PURCHASE].num <= selection.date_range[2] * 86400

Allowed(row, column, l) == Unconstrained(l) \/ row[column] \in l.values

(* The conjunction of the active predicates. *)
Selected(row) ==
    /\ RangeActive => InRange(row)
    /\ Allowed(row, PRIORITY, selection.priorities)
    /\ Allowed(row, CHANNEL, selection.channels)
    /\ Allowed(row, STATUS, selection.statuses)
    /\ Allowed(row, PRODUCT, selection.products)

(* C2: with every allow-list empty or omitted and no date range, filter    *)
(* returns its input row for row, null values included.                    *)
C2_EmptySelectionIsIdentity ==
    Filtered /\ NoAllowList /\ selection.date_range = <<>> =>
        raised = "none" /\ df_filtered = df

C2_Witness ==
    /\ Filtered /\ NoAllowList /\ selection.date_range = <<>>
    /\ selection.priorities = List({}) /\ selection.products = Omitted
    /\ FilterColumns \subseteq df.cols
    /\ len(df) = 2 /\ len(df_filtered) = 2
    /\ isna(df.rows[1][PRIORITY]) /\ isna(df.rows[2][PURCHASE])

(* C3: filter returns exactly the input rows that satisfy every active     *)
(* predicate, each once and in the input order.                            *)
C3_FilterIsConjunction ==
    Filtered =>
        /\ FilterColumns \subseteq df.cols => raised = "none"
        /\ raised = "none" =>
              /\ df_filtered.cols = df.cols
              /\ df_filtered.rows = SelectSeq(df.rows, Selected)

C3_Witness ==
    /\ Filtered /\ raised = "none"
    /\ RangeActive /\ ~Unconstrained(selection.priorities)
    /\ len(df) = 2 /\ len(df_filtered) = 1
    /\ InRange(df.rows[1]) /\ ~Allowed(df.rows[1], PRIORITY, selection.priorities)
    /\ df_filtered.rows[1] = df.rows[2]

(* C4: the date predicate acts only when the purchase-date column exists   *)
(* and both bounds are given; then it keeps exactly the rows with a        *)
(* non-null date inside the inclusive range; otherwise it removes no row.  *)
C4_DateRange ==
    Filtered =>
        /\ raised = "none" /\ RangeActive =>
              \A i \in 1..len(df_filtered) : InRange(df_filtered.rows[i])
        /\ NoAllowList =>
              /\ raised = "none"
              /\ IF RangeActive THEN df_filtered.rows = SelectSeq(df.rows, InRange)
                 ELSE df_filtered = df

C4_Witness ==
    /\ Filtered /\ raised = "none" /\ NoAllowList
    /\ selection.date_range = <<0, 1>> /\ RangeActive
    /\ len(df) = 2 /\ len(df_filtered) = 2
    /\ df.rows[1][PURCHASE] = Ts(0) /\ df.rows[2][PURCHASE] = Ts(86400)

(* C5: filter never raises when the column of a filtered dimension is      *)
(* absent: that predicate is skipped.                                      *)
C5_FilterNeverRaises == Filtered => raised = "none"

----------------------------------------------------------------------------
(* calculate_kpis applied to any filtered table *)

MaxKpiRows == 3

KpiRows ==
    {(RATING :> a) @@ (RESOLUTION :> b) @@ (STATUS :> c) :
        a \in {NA, Num(3), Num(4)},
        b \in {NA, Ratio(3600, SecondsPerHour), Ratio(9000, SecondsPerHour)},
        c \in {Str("Open"), Str("Closed"), Str("open")}}

InitKpis ==
    /\ \E n \in 0..MaxKpiRows : \E rows \in [1..n -> KpiRows] :
          df_filtered = Table({RATING, RESOLUTION, STATUS}, rows)
    /\ df_raw = NoTable
    /\ df = NoTable
    /\ selection = NoSelection
    /\ kpis = NoKpis
    /\ sat_by_group = NoGroups
    /\ vol_by_group = NoGroups
    /\ charts = NoCharts
    /\ raised = "none"
    /\ pc = "filtered"

(* kpis = calculate_kpis(df_filtered) *)
Kpis ==
    /\ pc = "filtered"
    /\ LET out == calculate_kpis(df_filtered)
       IN  /\ kpis' = IF out.raised = "none" THEN out.value ELSE NoKpis
           /\ raised' = out.raised
    /\ pc' = "kpis"
    /\ UNCHANGED <<df_raw, df, selection, df_filtered, sat_by_group, vol_by_group, charts>>

NextKpis == Kpis

SpecKpis == InitKpis /\ [][NextKpis]_vars

(* Sum of the numerators of the values at the indices S. *)
RECURSIVE NumSum(_, _)
NumSum(values, S) ==
    IF S = {} THEN 0
    ELSE LET i == CHOOSE i \in S : TRUE IN values[i].num + NumSum(values, S \ {i})

(* m is the mean of the non-null values, all of denominator den; null if none *)
IsMeanOf(m, values, den) ==
    LET S == {i \in 1..Len(values) : values[i].tag # "na"}
    IN  IF S = {} THEN m.tag = "na"
        ELSE /\ m.tag = "num" /\ m.den > 0
             /\ m.num * Cardinality(S) * den = NumSum(values, S) * m.den

(* C7: kpis returns, for every table: the number of rows, the mean of the  *)
(* non-null ratings and of the non-null durations (null if none), and the  *)
(* number of rows whose status is exactly "Open" and exactly "Closed".     *)
C7_Kpis ==
    pc = "kpis" =>
        /\ raised = "none"
        /\ kpis.total_tickets = Len(df_filtered.rows)
        /\ IsMeanOf(kpis.avg_satisfaction, Column(df_filtered, RATING), 1)
        /\ IsMeanOf(kpis.avg_resolution_time, Column(df_filtered, RESOLUTION), SecondsPerHour)
        /\ kpis.open_tickets =
              Cardinality({i \in 1..len(df_filtered) : df_filtered.rows[i][STATUS].str = "Open"})
        /\ kpis.closed_tickets =
              Cardinality({i \in 1..len(df_filtered) : df_filtered.rows[i][STATUS].str = "Closed"})
        /\ len(df_filtered) = 0 => kpis = NoKpis

(* Three tickets, one without rating, one "open" in lower case. *)
C7_Witness ==
    /\ pc = "kpis" /\ raised = "none"
    /\ kpis.total_tickets = 3
    /\ kpis.avg_satisfaction = Ratio(7, 2)
    /\ kpis.avg_resolution_time = Ratio(9000, SecondsPerHour)
    /\ kpis.open_tickets = 1 /\ kpis.closed_tickets = 1

----------------------------------------------------------------------------
(* The grouped analyses applied to any filtered table *)

MaxGroupRows == 3

GroupRows ==
    {(RATING :> a) @@ (PRIORITY :> b) @@ (CHANNEL :> c) :
        a \in {NA, Num(3), Num(4), Num(5)},
        b \in {NA, Str("High"), Str("Low")},
        c \in {Str("Email")}}

GroupColumns == {PRIORITY, CHANNEL}

InitGroups ==
    /\ \E n \in 0..MaxGroupRows : \E rows \in [1..n -> GroupRows] :
          df_filtered = Table({RATING, PRIORITY, CHANNEL}, rows)
    /\ df_raw = NoTable
    /\ df = NoTable
    /\ selection = NoSelection
    /\ kpis = NoKpis
    /\ sat_by_group = NoGroups
    /\ vol_by_group = NoGroups
    /\ charts = NoCharts
    /\ raised = "none"
    /\ pc = "filtered"

(* get_satisfaction_by_group(df_filtered, column) *)
GroupSatisfaction(column) ==
    /\ pc = "filtered"
    /\ LET out == get_satisfaction_by_group(df_filtered, column)
       IN  /\ sat_by_group' = [column |-> column,
                               rows |-> IF out.raised = "none" THEN out.value ELSE <<>>]
           /\ raised' = out.raised
    /\ pc' = "satisfaction"
    /\ UNCHANGED <<df_raw, df, selection, df_filtered, kpis, vol_by_group, charts>>

(* get_volume_by_group(df_filtered, column) *)
GroupVolume(column) ==
    /\ pc = "filtered"
    /\ LET out == get_volume_by_group(df_filtered, column)
       IN  /\ vol_by_group' = [column |-> column,
                               rows |-> IF out.raised = "none" THEN out.value ELSE <<>>]
           /\ raised' = out.raised
    /\ pc' = "volume"
    /\ UNCHANGED <<df_raw, df, selection, df_filtered, kpis, sat_by_group, charts>>

NextGroups ==
    \/ \E column \in GroupColumns : GroupSatisfaction(column)
    \/ \E column \in GroupColumns : GroupVolume(column)

SpecGroups == InitGroups /\ [][NextGroups]_vars

(* The indices of the rows of df_filtered that carry a rating. *)
Rated == {i \in 1..len(df_filtered) : df_filtered.rows[i][RATING].tag # "na"}

(* C8: groupBySatisfaction returns one row per distinct group value (null  *)
(* included) among the rated rows, with that group's mean and count, the   *)
(* rows ordered by mean descending; the counts sum to the number of rated  *)
(* rows; without any rated row the result is empty and nothing is raised.  *)
C8_SatisfactionByGroup ==
    pc = "satisfaction" =>
        LET c == sat_by_group.column
            out == sat_by_group.rows
            values == Column(df_filtered, c)
            members(g) == {i \in Rated : values[i] = g}
        IN  /\ raised = "none"
            /\ \A i \in Rated : \E p \in 1..Len(out) : out[p].group = values[i]
            /\ \A p, q \in 1..Len(out) : out[p].group = out[q].group => p = q
            /\ \A p \in 1..Len(out) :
                  /\ members(out[p].group) # {}
                  /\ out[p].count = Cardinality(members(out[p].group))
                  /\ out[p].mean.tag = "num" /\ out[p].mean.den > 0
                  /\ out[p].mean.num * out[p].count =
                        NumSum(Column(df_filtered, RATING), members(out[p].group)) * out[p].mean.den
            /\ \A p \in 1..(Len(out) - 1) :
                  out[p].mean.num * out[p + 1].mean.den >= out[p + 1].mean.num * out[p].mean.den
            /\ NumSum([p \in 1..Len(out) |-> Num(out[p].count)], 1..Len(out)) = Cardinality(Rated)
            /\ Rated = {} => out = <<>>

(* Low (5) before the null priority (4) before High (3). *)
C8_Witness ==
    /\ pc = "satisfaction" /\ raised = "none" /\ sat_by_group.column = PRIORITY
    /\ sat_by_group.rows =
          << [group |-> Str("Low"), mean |-> Ratio(5, 1), count |-> 1],
             [group |-> NA, mean |-> Ratio(4, 1), count |-> 1],
             [group |-> Str("High"), mean |-> Ratio(3, 1), count |-> 1] >>

(* C9: groupByVolume returns one row per distinct value of the column,     *)
(* null included, no row filtered out; the counts sum to the number of     *)
(* input rows and the rows are ordered by count descending.                *)
C9_VolumeByGroup ==
    pc = "volume" =>
        LET c == vol_by_group.column
            out == vol_by_group.rows
            values == Column(df_filtered, c)
        IN  /\ raised = "none"
            /\ \A i \in 1..Len(values) : \E p \in 1..Len(out) : out[p].group = values[i]
            /\ \A p, q \in 1..Len(out) : out[p].group = out[q].group => p = q
            /\ \A p \in 1..Len(out) :
                  /\ out[p].count = Cardinality({i \in 1..Len(values) : values[i] = out[p].group})
                  /\ out[p].count > 0
            /\ \A p \in 1..(Len(out) - 1) : out[p].count >= out[p + 1].count
            /\ NumSum([p \in 1..Len(out) |-> Num(out[p].count)], 1..Len(out)) = len(df_filtered)

(* Two tickets without priority outnumber the one High ticket seen first. *)
C9_Witness ==
    /\ pc = "volume" /\ raised = "none" /\ vol_by_group.column = PRIORITY
    /\ vol_by_group.rows =
          << [group |-> NA, count |-> 2], [group |-> Str("High"), count |-> 1] >>
    /\ df_filtered.rows[1][PRIORITY] = Str("High")
    /\ isna(df_filtered.rows[1][RATING])

----------------------------------------------------------------------------
(* The dashboard over one loaded table *)

MaxTickets == 2

(* Raw tickets as the CSV holds them. *)
Ticket(purchase, priority) ==
    (RATING :> IF priority = Str("High") THEN Num(5) ELSE NA) @@
    (PURCHASE :> purchase) @@
    (FIRST_RESPONSE :> Str("2023-06-01 10:00:00")) @@
    (RESOLUTION :> IF isna(purchase) THEN Str("2023-06-01 09:00:00")
                   ELSE Str("2023-06-01 12:30:00")) @@
    (TYPE :> Str("Technical issue")) @@
    (PRIORITY :> priority) @@
    (CHANNEL :> Str("Email")) @@
    (STATUS :> IF isna(priority) THEN Str("Closed") ELSE Str("Open")) @@
    (PRODUCT :> Str("GoPro Hero"))

Tickets ==
    {Ticket(d, p) : d \in {NA, Str("2023-06-01"), Str("2023-06-02")}, p \in {NA, Str("High")}}

Init ==
    /\ \E n \in 0..MaxTickets : \E rows \in [1..n -> Tickets] :
          df_raw = Table(DOMAIN Ticket(NA, NA), rows)
    /\ df = NoTable
    /\ selection = NoSelection
    /\ df_filtered = NoTable
    /\ kpis = NoKpis
    /\ sat_by_group = NoGroups
    /\ vol_by_group = NoGroups
    /\ charts = NoCharts
    /\ raised = "none"
    /\ pc = "start"

(* One run of the script with the widgets holding sel, top to bottom: each *)
(* statement runs if none before it raised, and a name the run did not     *)
(* reach is not bound (NoTable, NoKpis, an empty result).                  *)
Run(sel) ==
    \E cleaned \in {clean_data(df_raw)} :
    \E sidebar \in {Sidebar(cleaned)} :
    \E filtered \in {IF sidebar.raised = "none"
                     THEN ApplyFilters(FilterSource(cleaned.value, df_filtered), sel)
                     ELSE sidebar} :
    \E k \in {IF filtered.raised = "none" THEN calculate_kpis(filtered.value) ELSE filtered} :
    \E sat_by_type \in {IF k.raised = "none"
                        THEN get_satisfaction_by_group(filtered.value, TYPE) ELSE k} :
    \E sat_by_priority \in {IF sat_by_type.raised = "none"
                            THEN get_satisfaction_by_group(filtered.value, PRIORITY)
                            ELSE sat_by_type} :
    \E sat_by_channel \in {IF sat_by_priority.raised = "none"
                           THEN get_satisfaction_by_group(filtered.value, CHANNEL)
                           ELSE sat_by_priority} :
    \E df_scatter \in {IF sat_by_channel.raised = "none"
                       THEN ScatterRows(filtered.value) ELSE sat_by_channel} :
    \E res_by_priority \in {IF df_scatter.raised = "none"
                            THEN get_resolution_by_group(filtered.value, PRIORITY)
                            ELSE df_scatter} :
    \E vol_by_channel \in {IF res_by_priority.raised = "none"
                           THEN get_volume_by_group(filtered.value, CHANNEL)
                           ELSE res_by_priority} :
    \E vol_by_status \in {IF vol_by_channel.raised = "none"
                          THEN get_volume_by_group(filtered.value, STATUS)
                          ELSE vol_by_channel} :
        /\ selection' = sel
        /\ raised' = vol_by_status.raised
        /\ pc' = IF vol_by_status.raised = "none" THEN "rendered" ELSE "halted"
        /\ df' = IF cleaned.raised = "none" THEN cleaned.value ELSE NoTable
        /\ df_filtered' = IF filtered.raised = "none" THEN filtered.value ELSE NoTable
        /\ kpis' = IF k.raised = "none" THEN k.value ELSE NoKpis
        /\ charts' = [sat_by_type     |-> Bound(sat_by_type),
                      sat_by_priority |-> Bound(sat_by_priority),
                      sat_by_channel  |-> Bound(sat_by_channel),
                      df_scatter      |-> IF df_scatter.raised = "none"
                                          THEN df_scatter.value.rows ELSE <<>>,
                      res_by_priority |-> Bound(res_by_priority),
                      vol_by_channel  |-> Bound(vol_by_channel),
                      vol_by_status   |-> Bound(vol_by_status)]
        /\ UNCHANGED <<df_raw, sat_by_group, vol_by_group>>

(* The first run: every widget the sidebar draws holds its default. *)
FirstRun ==
    /\ pc = "start"
    /\ LET cleaned == clean_data(df_raw)
       IN  Run(IF cleaned.raised = "none" THEN DefaultSelection(cleaned.value)
               ELSE NoSelection)

(* The date_input section comes first in the sidebar: it was drawn by the  *)
(* last run if clean_data returned, and stays usable after a run that      *)
(* halted further down.                                                    *)
DateInputDrawn == pc \in {"rendered", "halted"} /\ df.cols # {}

(* A multiselect drawn by the last run stays usable in the same way. *)
MultiselectDrawn(column) == DateInputDrawn /\ column \in DrawnColumns(df)

ChangeDateRange ==
    /\ DateInputDrawn
    /\ \E d \in DateInputsOf(df) :
          d # selection.date_range /\ Run([selection EXCEPT !.date_range = d])

ChangePriorities ==
    /\ MultiselectDrawn(PRIORITY)
    /\ \E S \in SUBSET Options(df, PRIORITY) :
          List(S) # selection.priorities /\ Run([selection EXCEPT !.priorities = List(S)])

ChangeChannels ==
    /\ MultiselectDrawn(CHANNEL)
    /\ \E S \in SUBSET Options(df, CHANNEL) :
          List(S) # selection.channels /\ Run([selection EXCEPT !.channels = List(S)])

ChangeStatuses ==
    /\ MultiselectDrawn(STATUS)
    /\ \E S \in SUBSET Options(df, STATUS) :
          List(S) # selection.statuses /\ Run([selection EXCEPT !.statuses = List(S)])

ChangeProducts ==
    /\ MultiselectDrawn(PRODUCT)
    /\ \E S \in SUBSET Options(df, PRODUCT) :
          List(S) # selection.products /\ Run([selection EXCEPT !.products = List(S)])

Next ==
    \/ FirstRun
    \/ ChangeDateRange
    \/ ChangePriorities
    \/ ChangeChannels
    \/ ChangeStatuses
    \/ ChangeProducts

Spec == Init /\ [][Next]_vars

(* C10: over any sequence of selection changes the cleaned table is never  *)
(* modified, and after each change the filtered subset is the filter of    *)
(* the cleaned table by the current selection, whatever came before; the   *)
(* KPIs and the grouped results are those of that subset.                  *)
C10_RecomputedFromCleaned ==
    /\ [](pc # "start" =>
            /\ pc = "rendered" /\ raised = "none"
            /\ df_filtered.cols = df.cols
            /\ df_filtered.rows = SelectSeq(df.rows, Selected)
            /\ kpis = calculate_kpis(df_filtered).value
            /\ charts.sat_by_type = get_satisfaction_by_group(df_filtered, TYPE).value
            /\ charts.sat_by_priority = get_satisfaction_by_group(df_filtered, PRIORITY).value
            /\ charts.sat_by_channel = get_satisfaction_by_group(df_filtered, CHANNEL).value
            /\ charts.df_scatter = ScatterRows(df_filtered).value.rows
            /\ charts.res_by_priority = get_resolution_by_group(df_filtered, PRIORITY).value
            /\ charts.vol_by_channel = get_volume_by_group(df_filtered, CHANNEL).value
            /\ charts.vol_by_status = get_volume_by_group(df_filtered, STATUS).value)
    /\ [][pc = "rendered" => df' = df /\ df_raw' = df_raw]_vars

(* After several changes: one priority, no status, a single date picked. *)
C10_Witness ==
    /\ pc = "rendered"
    /\ selection.priorities = List({Str("High")})
    /\ selection.statuses = List({})
    /\ selection.date_range = <<1>>
    /\ len(df) = 2 /\ len(df_filtered) = 1

----------------------------------------------------------------------------
(* filter_data applied to tables with null values in every dimension, under *)
(* the dashboard's default selection or allow-lists that hold a null        *)

MaxAllowRows == 2

(* A purchase at midnight of the first day, one at 09:00 of the second. *)
AllowPurchases == {NA, Ts(0), Ts(118800)}

AllowRows ==
    {(PURCHASE :> d) @@ (PRIORITY :> p) @@ (CHANNEL :> c) @@ (STATUS :> s) @@ (PRODUCT :> g) :
        d \in AllowPurchases, p \in {NA, Str("High")}, c \in {NA, Str("Email")},
        s \in {NA, Str("Open")}, g \in {NA, Str("GoPro Hero")}}

(* Every allow-list empty: no constraint. *)
EmptyLists ==
    [date_range |-> <<>>, priorities |-> List({}), channels |-> List({}),
     statuses |-> List({}), products |-> List({})]

(* One allow-list at a time, with and without a null among its values. *)
AllowSelections ==
    {EmptyLists,
     [EmptyLists EXCEPT !.priorities = List({Str("High")})],
     [EmptyLists EXCEPT !.priorities = List({NA, Str("High")})],
     [EmptyLists EXCEPT !.channels = List({NA, Str("Email")})],
     [EmptyLists EXCEPT !.statuses = List({NA, Str("Open")})],
     [EmptyLists EXCEPT !.products = List({NA, Str("GoPro Hero")})]}

InitAllow ==
    /\ \E n \in 0..MaxAllowRows : \E rows \in [1..n -> AllowRows] :
          df = Table(FilterColumns, rows)
    /\ selection \in AllowSelections \cup {DefaultSelection(df)}
    /\ df_raw = NoTable
    /\ df_filtered = NoTable
    /\ kpis = NoKpis
    /\ sat_by_group = NoGroups
    /\ vol_by_group = NoGroups
    /\ charts = NoCharts
    /\ raised = "none"
    /\ pc = "cleaned"

NextAllow == Filter

SpecAllow == InitAllow /\ [][NextAllow]_vars

(* The allow-list the selection holds for a column. *)
AllowListOf(column) ==
    CASE column = PRIORITY -> selection.priorities
      [] column = CHANNEL -> selection.channels
      [] column = STATUS -> selection.statuses
      [] column = PRODUCT -> selection.products

AllowColumns == {PRIORITY, CHANNEL, STATUS, PRODUCT}

NonEmpty(l) == l.given /\ l.values # {}

(* No null in priority, channel, status, product or purchase date. *)
NoNull(row) == \A c \in FilterColumns : row[c].tag # "na"

(* Some row of the cleaned table holds a value in the column. *)
HasValue(column) == \E i \in 1..len(df) : df.rows[i][column].tag # "na"

(* Midnight of the latest purchase day is not before the row's purchase. *)
NotAfterLastDay(row) ==
    \E i \in 1..len(df) :
        /\ df.rows[i][PURCHASE].tag = "ts"
        /\ row[PURCHASE].num <= (df.rows[i][PURCHASE].num \div 86400) * 86400

(* What the default selection keeps: no null in a column that holds a      *)
(* value, and a purchase not after midnight of the latest purchase day.    *)
KeptByDefault(row) ==
    /\ \A c \in FilterColumns : HasValue(c) => row[c].tag # "na"
    /\ HasValue(PURCHASE) => NotAfterLastDay(row)

(* The row passes the date range and every allow-list but the column's. *)
PassesOthers(row, column) ==
    /\ RangeActive => InRange(row)
    /\ \A d \in AllowColumns \ {column} : Allowed(row, d, AllowListOf(d))

(* C12 as stated: a non-empty allow-list excludes every row null in its    *)
(* dimension, whatever the list holds; so the default selection keeps      *)
(* exactly the rows without any null in the five filter columns, fewer     *)
(* rows than the cleaned table as soon as one row has such a null.         *)
C12_NonEmptyListExcludesNull ==
    Filtered =>
        /\ raised = "none"
        /\ \A c \in AllowColumns : NonEmpty(AllowListOf(c)) =>
              \A i \in 1..len(df_filtered) : df_filtered.rows[i][c].tag # "na"
        /\ selection = DefaultSelection(df) =>
              /\ df_filtered.rows = SelectSeq(df.rows, NoNull)
              /\ (\E i \in 1..len(df) : ~NoNull(df.rows[i])) => len(df_filtered) < len(df)

(* C12 amended: a non-empty allow-list that holds no null excludes every   *)
(* row null in its dimension (a null in the list lets those rows pass).    *)
(* The default selection keeps exactly the rows that have no null in any   *)
(* filter column holding at least one value and whose purchase, if any row *)
(* has one, is not after midnight of the latest purchase day; it keeps     *)
(* fewer rows than the cleaned table as soon as one row fails that.        *)
C12_NullFreeListExcludesNull ==
    Filtered =>
        /\ raised = "none"
        /\ \A c \in AllowColumns :
              NonEmpty(AllowListOf(c)) /\ NA \notin AllowListOf(c).values =>
                  \A i \in 1..len(df_filtered) : df_filtered.rows[i][c].tag # "na"
        /\ \A c \in AllowColumns :
              NA \in AllowListOf(c).values =>
                  \A i \in 1..len(df) :
                      df.rows[i][c].tag = "na" /\ PassesOthers(df.rows[i], c)
                          => \E k \in 1..len(df_filtered) : df_filtered.rows[k] = df.rows[i]
        /\ selection = DefaultSelection(df) =>
              /\ df_filtered.rows = SelectSeq(df.rows, KeptByDefault)
              /\ (\E i \in 1..len(df) : ~KeptByDefault(df.rows[i])) => len(df_filtered) < len(df)

(* The default selection drops the ticket without priority and keeps the   *)
(* one without channel, no ticket of the table having a channel.           *)
C12_Witness ==
    /\ Filtered /\ raised = "none" /\ selection = DefaultSelection(df)
    /\ len(df) = 2 /\ len(df_filtered) = 1
    /\ df.rows[1][PRIORITY].tag = "na" /\ HasValue(PRIORITY)
    /\ df_filtered.rows[1] = df.rows[2]
    /\ df.rows[2][CHANNEL].tag = "na"
    /\ NonEmpty(selection.priorities) /\ ~NonEmpty(selection.channels)

====
